---- MODULE Spec2Model ----
(***************************************************************************)
(* TaskManager of src/src/processors/task.py: the task store, the          *)
(* priority queue, the status counters and the manager's lock, driven by   *)
(* several caller threads.                                                 *)
(*                                                                         *)
(* Every mutating method runs its body under `with self.lock`, so a call   *)
(* that gets the lock is one atomic step.  get_next_batch calls            *)
(* update_task_status while it still holds the lock; the lock is a         *)
(* threading.Lock, so that nested acquisition never succeeds and the call  *)
(* stays inside the method with the lock held.                             *)
(***************************************************************************)
EXTENDS Integers, Sequences, FiniteSets, TLC

\* ---- bounds of the model ----
MaxTasks == 2        \* ids uuid4 can hand out
MaxPriority == 2     \* priorities 1..MaxPriority
MaxOps == 6          \* calls that get the lock, in one behaviour
NumThreads == 2      \* caller threads
batch_size == 2      \* config["batch_size"]

TaskIds == 1..MaxTasks
Priorities == 1..MaxPriority
Threads == 1..NumThreads
NoThread == 0
None == "None"
Statuses == {"pending", "processing", "completed", "failed"}
\* status names a caller may pass: the four statuses and one that is none of them
StatusArgs == Statuses \cup {"bogus"}
ErrorArgs == {"err"}
ProgressArgs == {-5, 50, 150}

VARIABLES
    tasks,          \* self.tasks: id -> Task record, defined on the live ids
    task_queue,     \* self.task_queue: the heap, as the sorted sequence of its (-priority, id) entries
    status_counts,  \* self.status_counts
    lock,           \* self.lock: the thread that holds it, or NoThread
    pc,             \* per thread: "idle", "hung" (inside get_next_batch), "blocked" (waiting for the lock)
    submitted,      \* history: the ids in the order add_task created them
    nops,           \* history: the number of calls that got the lock so far
    last            \* history: the most recent call that got the lock, its arguments and outcome

vars == <<tasks, task_queue, status_counts, lock, pc, submitted, nops, last>>

\* ---- Task dataclass and the priority queue ----

\* a record created with the wrong status
NewTaskProcessing(priority) ==
    [status |-> "processing", priority |-> priority, retry_count |-> 0,
     progress |-> 0, error |-> None]

\* Task(task_id, video_info, priority): the defaults of the dataclass
NewTask(priority) ==
    [status |-> "pending", priority |-> priority, retry_count |-> 0,
     progress |-> 0, error |-> None]

\* tuple comparison of the heap entries (-priority, task_id)
TupleLess(a, b) == a[1] < b[1] \/ (a[1] = b[1] /\ a[2] < b[2])

\* PriorityQueue.put
RECURSIVE put(_, _)
put(q, e) ==
    IF q = <<>> THEN <<e>>
    ELSE IF TupleLess(e, Head(q)) THEN <<e>> \o q
    ELSE <<Head(q)>> \o put(Tail(q), e)

\* the entry add_task and retry_failed_task push for a task
QueueEntry(priority, id) == <<-priority, id>>

Min(a, b) == IF a < b THEN a ELSE b
Max(a, b) == IF a > b THEN a ELSE b

\* a lock that lets every caller in
LockAcquirableAlways(owner, t) == TRUE

\* threading.Lock.acquire by thread t when `owner` holds the lock: not reentrant
LockAcquirable(owner, t) == owner = NoThread

\* thread t enters the `with self.lock` block of a mutating method
Enter(t) ==
    /\ pc[t] = "idle"
    /\ LockAcquirable(lock, t)
    /\ nops < MaxOps
    /\ nops' = nops + 1

\* the number of records of status s
CountOf(tk, s) == Cardinality({id \in DOMAIN tk : tk[id].status = s})

\* the status of task id in store tk, None when there is no such record
StatusOf(tk, id) == IF id \in DOMAIN tk THEN tk[id].status ELSE None

\* a call: its task id (0: none) and the status that task had before the call, how
\* it ended, the number it returned (the id for add_task, the length of the batch,
\* the count of cleanup), and the batch and the popped ids of get_next_batch
Call(op, id, outcome, ret, batch, popped) ==
    [op |-> op, id |-> id, old |-> StatusOf(tasks, id), outcome |-> outcome,
     ret |-> ret, batch |-> batch, popped |-> popped]

Init ==
    /\ tasks = <<>>
    /\ task_queue = <<>>
    /\ status_counts = [s \in Statuses |-> 0]
    /\ lock = NoThread
    /\ pc = [t \in Threads |-> "idle"]
    /\ submitted = <<>>
    /\ nops = 0
    /\ last = Call("init", 0, "returned", 0, <<>>, <<>>)

\* ---- add_task ----
AddTask(t, priority) ==
    /\ Enter(t)
    /\ \E id \in TaskIds :
        /\ \A i \in 1..Len(submitted) : submitted[i] # id    \* uuid4: a fresh id
        /\ tasks' = [x \in DOMAIN tasks \cup {id} |->
                        IF x = id THEN NewTask(priority) ELSE tasks[x]]
        /\ status_counts' = [status_counts EXCEPT !["pending"] = @ + 1]
        /\ task_queue' = put(task_queue, QueueEntry(priority, id))
        /\ submitted' = Append(submitted, id)
        /\ last' = Call("add_task", id, "returned", id, <<>>, <<>>)
    /\ UNCHANGED <<lock, pc>>

\* ---- update_task_status ----

\* line 105 left out: the counter of the old status is not lowered
UTSCountsNoDecrement(c, old, new) ==
    IF new \in Statuses THEN [c EXCEPT ![new] = @ + 1] ELSE c

\* lines 105-106: status_counts[task.status] -= 1, then status_counts[status] += 1,
\* which raises KeyError for a name that is no key of the dict
UTSCounts(c, old, new) ==
    LET c1 == [c EXCEPT ![old] = @ - 1]
    IN  IF new \in Statuses THEN [c1 EXCEPT ![new] = @ + 1] ELSE c1

\* line 109: task.status = status, reached only when line 106 did not raise
UTSTasks(tk, id, new) ==
    IF new \in Statuses THEN [tk EXCEPT ![id].status = new] ELSE tk

\* the check of lines 101-102 left out
UTSRaisesUnknownNameOnly(tk, id, new) == new \notin Statuses

\* the call raises: the id is unknown (line 102) or the name is no counter (line 106)
UTSRaises(tk, id, new) == id \notin DOMAIN tk \/ new \notin Statuses

UpdateTaskStatus(t, id, status) ==
    /\ Enter(t)
    /\ IF id \notin DOMAIN tasks
       THEN UNCHANGED <<tasks, status_counts>>
       ELSE /\ status_counts' = UTSCounts(status_counts, tasks[id].status, status)
            /\ tasks' = UTSTasks(tasks, id, status)
    /\ last' = Call("update_task_status", id,
                    IF UTSRaises(tasks, id, status) THEN "raised" ELSE "returned",
                    0, <<>>, <<>>)
    /\ UNCHANGED <<task_queue, lock, pc, submitted>>

\* ---- get_next_batch ----

\* the locals of the loop, with the store and the counters the nested
\* update_task_status call works on
GnbStart(q, tk, c) ==
    [q |-> q, tasks |-> tk, counts |-> c, batch |-> <<>>, seen |-> {},
     popped |-> <<>>, hung |-> FALSE]

\* line 127: range(min(current_queue_size, self.batch_size * 2))
GnbRange(q) == Min(Len(q), batch_size * 2)

\* line 128: if len(batch) >= self.batch_size: break
GnbFull(batch) == Len(batch) >= batch_size

\* line 144: task and task.status == "pending"
GnbClaimable(tk, id) == id \in DOMAIN tk /\ tk[id].status = "pending"

\* the put-back left out: the popped entry is dropped
GnbPutBackDropped(q, e) == q

\* lines 147-149: a popped entry whose record exists but is not pending is put back
GnbPutBack(q, e) == put(q, e)

\* the entry of a missing record put back like the entry of a live one
GnbSkipMissingPutBack(q, e) == put(q, e)

\* lines 142-149: a popped entry whose record is gone (task is None) is neither
\* claimed nor put back
GnbSkipMissing(q, e) == q

\* lines 127-152, n iterations left, run by thread t that holds the lock
RECURSIVE GnbLoop(_, _, _)
GnbLoop(st, n, t) ==
    IF n = 0 \/ st.hung \/ GnbFull(st.batch) \/ st.q = <<>> THEN st
    ELSE
        LET e   == Head(st.q)
            id  == e[2]
            st1 == [st EXCEPT !.q = Tail(@), !.popped = Append(@, id)]
            st2 == [st1 EXCEPT !.seen = @ \cup {id}]
            st3 == [st2 EXCEPT !.batch = Append(@, id)]
        IN  IF id \in st.seen THEN GnbLoop(st1, n - 1, t)
            ELSE IF GnbClaimable(st.tasks, id) THEN
                \* line 146: update_task_status takes self.lock, which t holds
                IF LockAcquirable(t, t)
                THEN GnbLoop([st3 EXCEPT
                                !.counts = UTSCounts(@, "pending", "processing"),
                                !.tasks = UTSTasks(@, id, "processing")], n - 1, t)
                ELSE [st3 EXCEPT !.hung = TRUE]
            ELSE IF id \in DOMAIN st.tasks
                THEN GnbLoop([st2 EXCEPT !.q = GnbPutBack(@, e)], n - 1, t)
            ELSE GnbLoop([st2 EXCEPT !.q = GnbSkipMissing(@, e)], n - 1, t)

GnbRun(q, tk, c, t) == GnbLoop(GnbStart(q, tk, c), GnbRange(q), t)

GetNextBatch(t) ==
    /\ Enter(t)
    /\ LET r == GnbRun(task_queue, tasks, status_counts, t)
       IN  /\ task_queue' = r.q
           /\ tasks' = r.tasks
           /\ status_counts' = r.counts
           /\ lock' = IF r.hung THEN t ELSE lock
           /\ pc' = IF r.hung THEN [pc EXCEPT ![t] = "hung"] ELSE pc
           /\ last' = Call("get_next_batch", 0,
                           IF r.hung THEN "hung" ELSE "returned",
                           Len(r.batch), r.batch, r.popped)
    /\ UNCHANGED submitted

\* ---- retry_failed_task ----

\* the status check of line 170 left out
RetryRaisesUnknownOnly(tk, id) == id \notin DOMAIN tk

\* lines 167-171: the two checks that raise
RetryRaises(tk, id) == id \notin DOMAIN tk \/ tk[id].status # "failed"

\* the retry resets the priority to the default of add_task (line 60)
RetryTasksPriorityReset(tk, id) ==
    [tk EXCEPT ![id].status = "pending", ![id].retry_count = @ + 1, ![id].error = None,
               ![id].priority = 1]

\* lines 174-176
RetryTasks(tk, id) ==
    [tk EXCEPT ![id].status = "pending", ![id].retry_count = @ + 1, ![id].error = None]

\* lines 180-181
RetryCounts(c) == [c EXCEPT !["failed"] = @ - 1, !["pending"] = @ + 1]

RetryFailedTask(t, id) ==
    /\ Enter(t)
    /\ IF RetryRaises(tasks, id)
       THEN /\ UNCHANGED <<tasks, status_counts, task_queue>>
            /\ last' = Call("retry_failed_task", id, "raised", 0, <<>>, <<>>)
       ELSE /\ tasks' = RetryTasks(tasks, id)
            /\ status_counts' = RetryCounts(status_counts)
            /\ task_queue' = put(task_queue, QueueEntry(tasks[id].priority, id))
            /\ last' = Call("retry_failed_task", id, "returned", 0, <<>>, <<>>)
    /\ UNCHANGED <<lock, pc, submitted>>

\* ---- update_task_progress ----

\* the lower limit of line 204 left out
ClampProgressNoFloor(v) == Min(100, v)

\* line 204: max(0, min(100, progress))
ClampProgress(v) == Max(0, Min(100, v))

UpdateTaskProgress(t, id, progress) ==
    /\ Enter(t)
    /\ IF id \notin DOMAIN tasks
       THEN /\ UNCHANGED tasks
            /\ last' = Call("update_task_progress", id, "raised", 0, <<>>, <<>>)
       ELSE /\ tasks' = [tasks EXCEPT ![id].progress = ClampProgress(progress)]
            /\ last' = Call("update_task_progress", id, "returned", 0, <<>>, <<>>)
    /\ UNCHANGED <<task_queue, status_counts, lock, pc, submitted>>

\* ---- update_task_error ----

\* line 237 left out: the error is stored and the status stays
UTETasksStatusKept(tk, id, error) == [tk EXCEPT ![id].error = error]

\* line 236 left out: the task fails and the error is not stored
UTETasksErrorLost(tk, id, error) == [tk EXCEPT ![id].status = "failed"]

\* lines 236-237 applied to every record instead of the one looked up
UTETasksEveryRecord(tk, id, error) ==
    [x \in DOMAIN tk |-> [tk[x] EXCEPT !.error = error, !.status = "failed"]]

\* lines 236-237
UTETasks(tk, id, error) == [tk EXCEPT ![id].error = error, ![id].status = "failed"]

\* lines 241-242: the processing counter is lowered whatever the task's status was
UTECounts(c) == [c EXCEPT !["processing"] = @ - 1, !["failed"] = @ + 1]

UpdateTaskError(t, id, error) ==
    /\ Enter(t)
    /\ IF id \notin DOMAIN tasks
       THEN /\ UNCHANGED <<tasks, status_counts>>
            /\ last' = Call("update_task_error", id, "raised", 0, <<>>, <<>>)
       ELSE /\ tasks' = UTETasks(tasks, id, error)
            /\ status_counts' = UTECounts(status_counts)
            /\ last' = Call("update_task_error", id, "returned", 0, <<>>, <<>>)
    /\ UNCHANGED <<task_queue, lock, pc, submitted>>

\* ---- cleanup_completed_tasks ----

\* lines 277-280
CompletedTasks(tk) == {id \in DOMAIN tk : tk[id].status = "completed"}

CleanupCompletedTasks(t) ==
    /\ Enter(t)
    /\ LET done == CompletedTasks(tasks)
       IN  /\ tasks' = [id \in DOMAIN tasks \ done |-> tasks[id]]
           /\ status_counts' = [status_counts EXCEPT !["completed"] = @ - Cardinality(done)]
           /\ last' = Call("cleanup_completed_tasks", 0, "returned",
                           Cardinality(done), <<>>, <<>>)
    /\ UNCHANGED <<task_queue, lock, pc, submitted>>

\* ---- a mutating call while another thread holds the lock ----

\* `with self.lock` of any mutating method: the caller waits until the lock is
\* free; the only holder across steps is a thread that is stuck in get_next_batch
BlockOnLock(t) ==
    /\ pc[t] = "idle"
    /\ ~LockAcquirable(lock, t)
    /\ pc' = [pc EXCEPT ![t] = "blocked"]
    /\ UNCHANGED <<tasks, task_queue, status_counts, lock, submitted, nops, last>>

\* ---- the read-only methods, which take no lock ----
get_task_status(id) == IF id \in DOMAIN tasks THEN tasks[id].status ELSE None
get_task_progress(id) == IF id \in DOMAIN tasks THEN tasks[id].progress ELSE 0
get_task_error(id) == IF id \in DOMAIN tasks THEN tasks[id].error ELSE None
get_task_retry_count(id) == IF id \in DOMAIN tasks THEN tasks[id].retry_count ELSE 0
get_task_stats == status_counts

Next ==
    \E t \in Threads :
        \/ \E p \in Priorities : AddTask(t, p)
        \/ \E id \in TaskIds, s \in StatusArgs : UpdateTaskStatus(t, id, s)
        \/ GetNextBatch(t)
        \/ \E id \in TaskIds : RetryFailedTask(t, id)
        \/ \E id \in TaskIds, v \in ProgressArgs : UpdateTaskProgress(t, id, v)
        \/ \E id \in TaskIds, e \in ErrorArgs : UpdateTaskError(t, id, e)
        \/ CleanupCompletedTasks(t)
        \/ BlockOnLock(t)

Spec == Init /\ [][Next]_vars

\* ---- helpers of the properties ----

\* the ids of a sequence
Ids(seq) == {seq[i] : i \in 1..Len(seq)}

\* the number of entries the queue q holds for task id
EntriesOf(q, id) == Cardinality({i \in 1..Len(q) : q[i][2] = id})

\* the number of times id occurs in a sequence of ids
Occurrences(seq, id) == Cardinality({i \in 1..Len(seq) : seq[i] = id})

\* a was created by add_task before b
SubmittedBefore(a, b) ==
    \E i, j \in 1..Len(submitted) : i < j /\ submitted[i] = a /\ submitted[j] = b

\* the pending tasks that still have a queue entry
PendingQueued == {id \in DOMAIN tasks : tasks[id].status = "pending" /\ EntriesOf(task_queue, id) > 0}

\* the latest call that got the lock is a get_next_batch
AfterGnb == last.op = "get_next_batch"

\* a step of the call `op`
StepOf(op) == nops' # nops /\ last'.op = op

\* ---- C1 ----
\* C1: in every reachable state, for each of the four statuses s, status_counts[s]
\* equals the number of task records whose status is s.
C1_CountersMatchRecords ==
    \A s \in Statuses : status_counts[s] = CountOf(tasks, s)

\* ---- C2 ----
\* C2: every get_next_batch call completes and returns, and no thread waits forever on
\* the lock: no thread is ever stuck inside get_next_batch with the lock held, and no
\* thread is ever waiting for a lock that is not going to be released.
C2_NoThreadStuckOnLock ==
    \A t \in Threads : pc[t] # "hung" /\ pc[t] # "blocked"

\* ---- C3 ----
\* C3: when several tasks are pending and queued, get_next_batch returns: its batch
\* is in non-increasing priority order, and no pending queued task left out of the
\* batch has a strictly higher priority than a task in the batch.
C3_BatchInPriorityOrder ==
    (AfterGnb /\ Cardinality(PendingQueued \cup Ids(last.batch)) >= 2) =>
        /\ last.outcome = "returned"
        /\ \A i, j \in 1..Len(last.batch) :
              i < j => tasks[last.batch[i]].priority >= tasks[last.batch[j]].priority
        /\ \A a \in Ids(last.batch), b \in PendingQueued \ Ids(last.batch) :
              tasks[b].priority <= tasks[a].priority

\* ---- C4 ----
\* C4: among pending tasks of equal priority get_next_batch takes the tasks in the
\* order of their submission: a task the call put in its batch was not submitted
\* after a pending queued task of the same priority that the call left out.
C4_FifoAmongEqualPriority ==
    AfterGnb =>
        \A a \in Ids(last.batch), b \in PendingQueued \ Ids(last.batch) :
            tasks[b].priority = tasks[a].priority => ~SubmittedBefore(b, a)

\* ---- C5 ----
\* the edges of the state machine the claim names
LegalEdges ==
    {<<"pending", "processing">>, <<"processing", "completed">>, <<"pending", "failed">>,
     <<"processing", "failed">>, <<"failed", "pending">>}

\* C5 (as claimed): a task's status changes only along the edges pending->processing,
\* processing->completed, pending->failed, processing->failed and failed->pending,
\* and an update_task_status call that asks for another change raises and leaves
\* the status as it was.
C5_OnlyLegalEdges ==
    [][/\ \A id \in DOMAIN tasks \cap DOMAIN tasks' :
            tasks'[id].status # tasks[id].status =>
                <<tasks[id].status, tasks'[id].status>> \in LegalEdges
       /\ \A t \in Threads, id \in DOMAIN tasks, s \in Statuses :
            (UpdateTaskStatus(t, id, s) /\ s # tasks[id].status
                /\ <<tasks[id].status, s>> \notin LegalEdges) =>
                (last'.outcome = "raised" /\ tasks'[id].status = tasks[id].status)]_vars

\* C5 (amended): a task's status changes only by update_task_status on that task,
\* by update_task_error on it (to failed) and by retry_failed_task on it (from failed
\* to pending); update_task_status on an existing task with any of the four status
\* names returns True and sets that status, whatever the status was before
\* (completed->processing included).
C5_StatusSetToAnyRequestedStatus ==
    [][/\ \A id \in DOMAIN tasks \cap DOMAIN tasks' :
            tasks'[id].status # tasks[id].status =>
                /\ last'.id = id
                /\ \/ last'.op = "update_task_status" /\ last'.outcome = "returned"
                   \/ last'.op = "update_task_error" /\ tasks'[id].status = "failed"
                   \/ /\ last'.op = "retry_failed_task"
                      /\ tasks[id].status = "failed"
                      /\ tasks'[id].status = "pending"
       /\ \A t \in Threads, id \in DOMAIN tasks, s \in Statuses :
            UpdateTaskStatus(t, id, s) =>
                (last'.outcome = "returned" /\ tasks'[id].status = s)]_vars

\* update_task_status has moved a completed task back to processing
C5_Witness ==
    /\ last.op = "update_task_status"
    /\ last.outcome = "returned"
    /\ last.old = "completed"
    /\ StatusOf(tasks, last.id) = "processing"

\* ---- C6 ----
\* C6: a call that raises leaves every task record, every status counter and the
\* queue as they were before the call.
C6_RaisingCallChangesNothing ==
    [][(nops' # nops /\ last'.outcome = "raised") =>
          (tasks' = tasks /\ status_counts' = status_counts /\ task_queue' = task_queue)]_vars

\* ---- C7 ----
\* C7: in every reachable state the four counters of get_task_stats add up to the
\* number of task records in the store.
C7_StatsSumIsRecordCount ==
    get_task_stats["pending"] + get_task_stats["processing"]
        + get_task_stats["completed"] + get_task_stats["failed"]
    = Cardinality(DOMAIN tasks)

StalePopped(popped) ==
    {id \in Ids(popped) : id \in DOMAIN tasks /\ tasks[id].status # "pending"}

\* C10 (as claimed): an entry get_next_batch pops for a task whose record exists but
\* is not pending is discarded: the id is not in the batch and every popped entry
\* of it is gone from the queue when the call has returned.
C10_StaleEntryDiscarded ==
    [][(StepOf("get_next_batch") /\ last'.outcome = "returned") =>
          \A id \in StalePopped(last'.popped) :
              /\ id \notin Ids(last'.batch)
              /\ EntriesOf(task_queue', id)
                    = EntriesOf(task_queue, id) - Occurrences(last'.popped, id)]_vars

\* C10 (amended): an entry get_next_batch pops for a task whose record exists but is
\* not pending is not put in the batch and is put back into the queue; only when the
\* same call pops an entry of that id again is that further entry dropped.  So the
\* call takes Occurrences - 1 entries of the id out of the queue, and a queue that
\* holds a single such entry still holds it when the call ends.
C10_StaleEntryPutBack ==
    [][StepOf("get_next_batch") =>
          \A id \in StalePopped(last'.popped) :
              /\ id \notin Ids(last'.batch)
              /\ EntriesOf(task_queue', id)
                    = EntriesOf(task_queue, id) - (Occurrences(last'.popped, id) - 1)]_vars

\* a get_next_batch call has returned after popping the entry of a task that is
\* not pending, and the queue still holds an entry of that task
C10_Witness ==
    /\ AfterGnb
    /\ last.outcome = "returned"
    /\ \E id \in Ids(last.popped) :
          /\ id \in DOMAIN tasks
          /\ tasks[id].status # "pending"
          /\ EntriesOf(task_queue, id) > 0

\* ---- C11 ----
\* the ids cleanup_completed_tasks has removed from the store
Reaped(tk) == {id \in Ids(submitted) : id \notin DOMAIN tk}

\* C11 (as claimed): when a task was completed and removed by cleanup_completed_tasks
\* while its queue entry is still there, a later get_next_batch that returns has not
\* put the id in its batch and has removed the entry from the queue.
C11_ReapedEntryRemoved ==
    [][(StepOf("get_next_batch") /\ last'.outcome = "returned") =>
          \A id \in Reaped(tasks) :
              id \notin Ids(last'.batch) /\ EntriesOf(task_queue', id) = 0]_vars

\* C11 (amended): a get_next_batch call raises no error and never puts the id of a
\* reaped task in its batch, and every entry of that id the call pops is dropped,
\* not put back; an entry the call does not reach before it stops (its scan bound is
\* used up by entries of other tasks, or the call hangs) stays in the queue.
C11_ReapedEntryDroppedWhenPopped ==
    [][StepOf("get_next_batch") =>
          /\ last'.outcome # "raised"
          /\ \A id \in Reaped(tasks) :
                /\ id \notin Ids(last'.batch)
                /\ EntriesOf(task_queue', id)
                      = EntriesOf(task_queue, id) - Occurrences(last'.popped, id)]_vars

\* a get_next_batch call has returned after popping the entry of a reaped task
C11_Witness ==
    /\ AfterGnb
    /\ last.outcome = "returned"
    /\ \E id \in Ids(last.popped) :
          id \in Reaped(tasks) /\ EntriesOf(task_queue, id) = 0

\* ---- C12 ----
\* the tasks that are pending again after a retry
Retried == {id \in DOMAIN tasks : tasks[id].retry_count >= 1}

\* C12: a task that failed and was retried is pending with error None and has a
\* queue entry, and the get_next_batch call that takes it returns it in its batch.
C12_RetriedTaskReturnedByNextBatch ==
    /\ (last.op = "retry_failed_task" /\ last.outcome = "returned") =>
          /\ tasks[last.id].status = "pending"
          /\ tasks[last.id].retry_count >= 1
          /\ tasks[last.id].error = None
          /\ EntriesOf(task_queue, last.id) >= 1
    /\ (AfterGnb /\ Retried \cap Ids(last.batch) # {}) => last.outcome = "returned"

\* ---- C13 ----
\* C13: retry_failed_task on a task that is pending, processing or completed raises
\* and leaves the records, the counters and the queue unchanged.
C13_RetryOfNonFailedChangesNothing ==
    [][\A t \in Threads, id \in DOMAIN tasks :
          (RetryFailedTask(t, id) /\ tasks[id].status # "failed") =>
              /\ last'.outcome = "raised"
              /\ tasks' = tasks
              /\ status_counts' = status_counts
              /\ task_queue' = task_queue]_vars

\* retry_failed_task has raised on a task that is not failed
C13_Witness ==
    /\ last.op = "retry_failed_task"
    /\ last.outcome = "raised"
    /\ last.old \in {"pending", "processing", "completed"}
    /\ StatusOf(tasks, last.id) = last.old

\* ---- C14 ----
\* C14 (as claimed): update_task_error succeeds only on a processing task; on a
\* pending, completed or failed task it raises and changes neither the record nor
\* the processing and failed counters.
C14_ErrorOnlyOnProcessing ==
    [][\A t \in Threads, id \in DOMAIN tasks, e \in ErrorArgs :
          (UpdateTaskError(t, id, e) /\ tasks[id].status # "processing") =>
              /\ last'.outcome = "raised"
              /\ tasks'[id] = tasks[id]
              /\ status_counts'["processing"] = status_counts["processing"]
              /\ status_counts'["failed"] = status_counts["failed"]]_vars

\* C14 (amended): update_task_error succeeds on an existing task whatever its
\* status is (pending, processing, completed or failed): it returns True and sets
\* the status failed and the error; it raises only for an id that is not in the
\* store, and then it changes neither the records nor the counters.
C14_ErrorSucceedsInAnyStatus ==
    [][\A t \in Threads, id \in TaskIds, e \in ErrorArgs :
          UpdateTaskError(t, id, e) =>
              IF id \in DOMAIN tasks
              THEN /\ last'.outcome = "returned"
                   /\ tasks'[id].status = "failed"
                   /\ tasks'[id].error = e
              ELSE /\ last'.outcome = "raised"
                   /\ tasks' = tasks
                   /\ status_counts' = status_counts]_vars

\* update_task_error has returned True on a completed task
C14_Witness ==
    /\ last.op = "update_task_error"
    /\ last.outcome = "returned"
    /\ last.old = "completed"
    /\ StatusOf(tasks, last.id) = "failed"

\* ---- C15 ----
\* C15: for any existing task, one that was just added and never claimed included,
\* update_task_error returns True, and afterwards get_task_error gives the message
\* and get_task_status gives failed.
C15_ErrorReportedOnAnyExistingTask ==
    (last.op = "update_task_error" /\ last.old # None) =>
        /\ last.outcome = "returned"
        /\ get_task_error(last.id) \in ErrorArgs
        /\ get_task_status(last.id) = "failed"

\* update_task_error has returned on a task that add_task had just created
C15_Witness ==
    /\ last.op = "update_task_error"
    /\ last.outcome = "returned"
    /\ last.old = "pending"
    /\ nops = 2
    /\ get_task_error(last.id) = "err"
    /\ get_task_status(last.id) = "failed"

\* ---- C16 ----
\* the value the claim says is stored for the argument v
Clamped(v) == IF v < 0 THEN 0 ELSE IF v > 100 THEN 100 ELSE v

\* C16: update_task_progress stores max(0, min(100, value)) (150 stores 100, -5
\* stores 0), and after every step every task's progress is in 0..100.
C16_ProgressClamped ==
    [][/\ \A t \in Threads, id \in DOMAIN tasks, v \in ProgressArgs :
            UpdateTaskProgress(t, id, v) => get_task_progress(id)' = Clamped(v)
       /\ \A id \in DOMAIN tasks' : tasks'[id].progress \in 0..100]_vars

\* update_task_progress has stored the upper limit
C16_Witness ==
    /\ last.op = "update_task_progress"
    /\ last.outcome = "returned"
    /\ get_task_progress(last.id) = 100

\* ---- C17 ----
\* C17: cleanup_completed_tasks removes exactly the completed records, returns their
\* number, lowers the completed counter to 0 and leaves every other record and
\* counter unchanged; a removed id is absent afterwards.
C17_CleanupRemovesCompleted ==
    [][\A t \in Threads :
          CleanupCompletedTasks(t) =>
              /\ DOMAIN tasks' = DOMAIN tasks \ CompletedTasks(tasks)
              /\ \A id \in DOMAIN tasks' : tasks'[id] = tasks[id]
              /\ \A id \in CompletedTasks(tasks) : get_task_status(id)' = None
              /\ last'.ret = Cardinality(CompletedTasks(tasks))
              /\ status_counts'["completed"] = 0
              /\ \A s \in Statuses \ {"completed"} : status_counts'[s] = status_counts[s]]_vars

\* ---- C18 ----
\* the four methods that change the task of a given id
ByIdOps == {"update_task_status", "update_task_progress", "update_task_error",
            "retry_failed_task"}

\* C18: update_task_status, update_task_progress, update_task_error and
\* retry_failed_task called with an id that is not in the store (never created, or
\* already reaped) raise and leave all records, counters and the queue unchanged.
C18_UnknownIdRaisesAndChangesNothing ==
    [][(nops' # nops /\ last'.op \in ByIdOps /\ last'.id \notin DOMAIN tasks) =>
          /\ last'.outcome = "raised"
          /\ tasks' = tasks
          /\ status_counts' = status_counts
          /\ task_queue' = task_queue]_vars

\* update_task_status has raised for the id of a task that was reaped
C18_Witness ==
    /\ last.op = "update_task_status"
    /\ last.outcome = "raised"
    /\ last.id \in Reaped(tasks)
    /\ last.old = None

\* ---- C19 ----
\* C19 (as claimed): when update_task_status(id, s) returns True, the status is s,
\* the counter of the previous status is lower by exactly 1, the counter of s is
\* higher by exactly 1, and no other counter changes.
C19_OldCounterLowerNewCounterHigher ==
    [][(StepOf("update_task_status") /\ last'.outcome = "returned") =>
          /\ StatusOf(tasks', last'.id) # None
          /\ LET s == StatusOf(tasks', last'.id)
                 old == last'.old
             IN  /\ status_counts'[old] = status_counts[old] - 1
                 /\ status_counts'[s] = status_counts[s] + 1
                 /\ \A c \in Statuses \ {old, s} : status_counts'[c] = status_counts[c]]_vars

\* C19 (amended): when update_task_status(id, s) returns True, the status is s and
\* the counters have had one taken from the previous status and one added to s:
\* for s different from the previous status its counter is lower by 1 and that of s
\* higher by 1, for s equal to the previous status no counter changes; no other
\* counter changes.
C19_CountersDecrementOldIncrementNew ==
    [][\A t \in Threads, id \in DOMAIN tasks, s \in Statuses :
          UpdateTaskStatus(t, id, s) =>
              /\ last'.outcome = "returned"
              /\ get_task_status(id)' = s
              /\ \A c \in Statuses :
                    status_counts'[c] = status_counts[c]
                                          - (IF c = tasks[id].status THEN 1 ELSE 0)
                                          + (IF c = s THEN 1 ELSE 0)]_vars

\* one task was added and marked completed: pending is 0 and completed above 0
C19_Witness ==
    /\ last.op = "update_task_status"
    /\ last.outcome = "returned"
    /\ last.old = "pending"
    /\ get_task_status(last.id) = "completed"
    /\ get_task_stats["pending"] = 0
    /\ get_task_stats["completed"] > 0

\* ---- C20 ----
\* C20: add_task returns an id that was not in the store, inserts exactly one record
\* under it with status pending, progress 0, retry_count 0 and error None, raises the
\* pending counter by exactly 1, pushes exactly one queue entry for the id, and
\* leaves all existing records unchanged.
C20_AddTaskInsertsOnePendingRecord ==
    [][StepOf("add_task") =>
          LET id == last'.ret
          IN  /\ last'.outcome = "returned"
              /\ id \notin DOMAIN tasks
              /\ DOMAIN tasks' = DOMAIN tasks \cup {id}
              /\ tasks'[id].status = "pending"
              /\ tasks'[id].progress = 0
              /\ tasks'[id].retry_count = 0
              /\ tasks'[id].error = None
              /\ \A x \in DOMAIN tasks : tasks'[x] = tasks[x]
              /\ status_counts'["pending"] = status_counts["pending"] + 1
              /\ \A c \in Statuses \ {"pending"} : status_counts'[c] = status_counts[c]
              /\ EntriesOf(task_queue', id) = EntriesOf(task_queue, id) + 1
              /\ Len(task_queue') = Len(task_queue) + 1
              /\ \A x \in TaskIds \ {id} :
                    EntriesOf(task_queue', x) = EntriesOf(task_queue, x)]_vars

\* add_task has added a second task beside an existing one
C20_Witness ==
    /\ last.op = "add_task"
    /\ last.outcome = "returned"
    /\ Cardinality(DOMAIN tasks) = 2
    /\ get_task_status(last.ret) = "pending"
    /\ EntriesOf(task_queue, last.ret) = 1

\* ---- C23 ----
\* C23: one get_next_batch call pops at most min(queue size at entry, 2 * batch_size)
\* entries, and when it has popped that many with the batch not yet full it returns
\* the ids collected so far as a normal result.
C23_ScanBoundedAndShortBatchReturned ==
    [][StepOf("get_next_batch") =>
          /\ Len(last'.popped) <= Min(Len(task_queue), 2 * batch_size)
          /\ (/\ Len(last'.popped) = Min(Len(task_queue), 2 * batch_size)
              /\ Len(last'.batch) < batch_size) =>
                 /\ last'.outcome = "returned"
                 /\ last'.ret = Len(last'.batch)]_vars

\* ---- C24 ----
\* C24: no operation changes the priority of an existing task, and every queue entry
\* of an existing task, the one retry_failed_task pushes included, carries the
\* priority the task was created with.
C24_PriorityImmutable ==
    [][/\ \A id \in DOMAIN tasks \cap DOMAIN tasks' :
            tasks'[id].priority = tasks[id].priority
       /\ \A i \in 1..Len(task_queue') :
            task_queue'[i][2] \in DOMAIN tasks' =>
                task_queue'[i][1] = -(tasks'[task_queue'[i][2]].priority)]_vars

\* a task created with a priority other than the default was retried and has the
\* entry of add_task and the entry of the retry in the queue
C24_Witness ==
    /\ last.op = "retry_failed_task"
    /\ last.outcome = "returned"
    /\ tasks[last.id].priority = MaxPriority
    /\ EntriesOf(task_queue, last.id) = 2

\* ---- C25 ----
\* C25: in every reachable state a failed task has an error that is not None, and
\* after a successful retry_failed_task the task is pending with error None.
C25_FailedTaskHasError ==
    /\ \A id \in DOMAIN tasks : tasks[id].status = "failed" => tasks[id].error # None
    /\ (last.op = "retry_failed_task" /\ last.outcome = "returned") =>
          tasks[last.id].status = "pending" /\ tasks[last.id].error = None

\* ---- C26 ----
\* C26: in every reachable state every task whose status is pending has at least one
\* entry in the priority queue.
C26_PendingTaskHasQueueEntry ==
    \A id \in DOMAIN tasks : tasks[id].status = "pending" => EntriesOf(task_queue, id) >= 1

\* ---- C28 ----
\* C28: in every reachable state no status counter is negative.
C28_NoNegativeCounter ==
    \A s \in Statuses : status_counts[s] >= 0

\* ---- C30 ----
\* the fields of a record that the claim names
Fields(r) == <<r.status, r.priority, r.retry_count, r.progress, r.error>>

\* C30: update_task_status, update_task_progress, update_task_error and
\* retry_failed_task leave the status, priority, retry_count, progress and error of
\* every task other than the target unchanged and create and remove no record, and
\* update_task_progress also leaves the target's status, all counters and the queue
\* unchanged.
C30_OtherTasksUntouched ==
    [][(nops' # nops /\ last'.op \in ByIdOps) =>
          /\ DOMAIN tasks' = DOMAIN tasks
          /\ \A x \in DOMAIN tasks \ {last'.id} : Fields(tasks'[x]) = Fields(tasks[x])
          /\ last'.op = "update_task_progress" =>
                /\ StatusOf(tasks', last'.id) = StatusOf(tasks, last'.id)
                /\ status_counts' = status_counts
                /\ task_queue' = task_queue]_vars

\* update_task_error has failed one of two tasks and the other is still pending
\* with no error
C30_Witness ==
    /\ last.op = "update_task_error"
    /\ last.outcome = "returned"
    /\ \E x \in DOMAIN tasks \ {last.id} :
          tasks[x].status = "pending" /\ tasks[x].error = None

\* ---- C29 ----
\* get_next_batch keeps being called: a call that can get the lock is made
FairSpec == Spec /\ WF_vars(\E t \in Threads : GetNextBatch(t))

\* a get_next_batch call has returned task id in its batch
ReturnedInBatch(id) ==
    AfterGnb /\ last.outcome = "returned" /\ id \in Ids(last.batch)

\* C29: when get_next_batch keeps being called, a task that is pending with a queue
\* entry is eventually returned in a batch, unless it stops being pending with a
\* queue entry (or the calls of the model are used up).
C29_PendingTaskEventuallyReturned ==
    \A id \in TaskIds :
        (id \in PendingQueued) ~>
            (ReturnedInBatch(id) \/ id \notin PendingQueued \/ nops = MaxOps)

\* ---- the methods statement by statement ----
\* The same state with every method split at its writes to the shared objects, so
\* that the states inside a `with self.lock` block are states of the model: pc[t]
\* is the frame of thread t (the statement it is at and its locals).

MaxCalls == 4

\* the frame of a thread that is in no method; `entry` is the store as it was when
\* the thread entered its method
Idle ==
    [at |-> "idle", id |-> 0, arg |-> None, n |-> 0, batch |-> <<>>, seen |-> {},
     todo |-> <<>>, nested |-> FALSE, entry |-> <<>>]

At(t, l) == pc[t].at = l
Goto(t, l) == pc' = [pc EXCEPT ![t].at = l]

\* `with self.lock:` of a method called by thread t, which then is at statement l
EnterCall(t, l, id, arg) ==
    /\ At(t, "idle")
    /\ LockAcquirable(lock, t)
    /\ nops < MaxCalls
    /\ nops' = nops + 1
    /\ lock' = t
    /\ pc' = [pc EXCEPT ![t] = [Idle EXCEPT !.at = l, !.id = id, !.arg = arg,
                                            !.entry = tasks]]

\* the end of a `with self.lock` block, by return or by an exception: the lock is
\* released; a nested update_task_status goes back to the loop of get_next_batch
\* (its exception is caught at line 150)
Return(t) ==
    /\ At(t, "return")
    /\ lock' = NoThread
    /\ pc' = [pc EXCEPT ![t] = IF pc[t].nested
                               THEN [pc[t] EXCEPT !.at = "gnb128", !.nested = FALSE]
                               ELSE Idle]
    /\ UNCHANGED <<tasks, task_queue, status_counts, submitted, nops, last>>

StepInit ==
    /\ tasks = <<>>
    /\ task_queue = <<>>
    /\ status_counts = [s \in Statuses |-> 0]
    /\ lock = NoThread
    /\ pc = [t \in Threads |-> Idle]
    /\ submitted = <<>>
    /\ nops = 0
    /\ last = Call("init", 0, "returned", 0, <<>>, <<>>)

\* add_task, lines 58-59: the lock and the new uuid
AddTaskEnter(t, priority) ==
    /\ \E id \in TaskIds :
        /\ \A i \in 1..Len(submitted) : submitted[i] # id
        /\ EnterCall(t, "add67", id, priority)
        /\ submitted' = Append(submitted, id)
    /\ UNCHANGED <<tasks, task_queue, status_counts, last>>

\* line 67: self.tasks[task_id] = task
AddTaskStore(t) ==
    /\ At(t, "add67")
    /\ tasks' = [x \in DOMAIN tasks \cup {pc[t].id} |->
                    IF x = pc[t].id THEN NewTask(pc[t].arg) ELSE tasks[x]]
    /\ Goto(t, "add68")
    /\ UNCHANGED <<task_queue, status_counts, lock, submitted, nops, last>>

\* line 68: self.status_counts["pending"] += 1
AddTaskCount(t) ==
    /\ At(t, "add68")
    /\ status_counts' = [status_counts EXCEPT !["pending"] = @ + 1]
    /\ Goto(t, "add73")
    /\ UNCHANGED <<tasks, task_queue, lock, submitted, nops, last>>

\* line 73: self.task_queue.put((-priority, task_id))
AddTaskPut(t) ==
    /\ At(t, "add73")
    /\ task_queue' = put(task_queue, QueueEntry(pc[t].arg, pc[t].id))
    /\ Goto(t, "return")
    /\ UNCHANGED <<tasks, status_counts, lock, submitted, nops, last>>

\* the status of the Task object a thread holds (line 100: task = self.tasks.get(id))
HeldStatus(id) == StatusOf(tasks, id)

\* a write to a field of the Task object a thread holds
SetField(tk, id, f, v) == IF id \in DOMAIN tk THEN [tk EXCEPT ![id][f] = v] ELSE tk

\* update_task_status, line 99
UpdateTaskStatusEnter(t, id, status) ==
    /\ EnterCall(t, "uts105", id, status)
    /\ UNCHANGED <<tasks, task_queue, status_counts, submitted, last>>

\* lines 100-105: the lookup, which raises for an unknown id, and
\* self.status_counts[task.status] -= 1
UpdateTaskStatusDecrement(t) ==
    /\ At(t, "uts105")
    /\ IF pc[t].id \notin DOMAIN tasks
       THEN Goto(t, "return") /\ UNCHANGED status_counts
       ELSE /\ status_counts' = [status_counts EXCEPT ![HeldStatus(pc[t].id)] = @ - 1]
            /\ Goto(t, "uts106")
    /\ UNCHANGED <<tasks, task_queue, lock, submitted, nops, last>>

\* line 106: self.status_counts[status] += 1, a KeyError for a name that is no key
UpdateTaskStatusIncrement(t) ==
    /\ At(t, "uts106")
    /\ IF pc[t].arg \in Statuses
       THEN /\ status_counts' = [status_counts EXCEPT ![pc[t].arg] = @ + 1]
            /\ Goto(t, "uts109")
       ELSE Goto(t, "return") /\ UNCHANGED status_counts
    /\ UNCHANGED <<tasks, task_queue, lock, submitted, nops, last>>

\* line 109: task.status = status
UpdateTaskStatusAssign(t) ==
    /\ At(t, "uts109")
    /\ tasks' = SetField(tasks, pc[t].id, "status", pc[t].arg)
    /\ Goto(t, "return")
    /\ UNCHANGED <<task_queue, status_counts, lock, submitted, nops, last>>

\* get_next_batch, lines 120-127: the lock, the empty batch and the range
GetNextBatchEnter(t) ==
    /\ At(t, "idle")
    /\ LockAcquirable(lock, t)
    /\ nops < MaxCalls
    /\ nops' = nops + 1
    /\ lock' = t
    /\ pc' = [pc EXCEPT ![t] = [Idle EXCEPT !.at = "gnb128", !.n = GnbRange(task_queue),
                                            !.entry = tasks]]
    /\ UNCHANGED <<tasks, task_queue, status_counts, submitted, last>>

\* lines 127-146, one iteration: the breaks, the pop, seen_tasks, and for a pending
\* task the append and the call of update_task_status, which waits for self.lock
GetNextBatchPop(t) ==
    /\ At(t, "gnb128")
    /\ IF pc[t].n = 0 \/ GnbFull(pc[t].batch) \/ task_queue = <<>>
       THEN Goto(t, "return") /\ UNCHANGED task_queue
       ELSE
         LET e  == Head(task_queue)
             id == e[2]
             f1 == [pc[t] EXCEPT !.n = @ - 1]
             f2 == [f1 EXCEPT !.seen = @ \cup {id}, !.id = id, !.arg = e[1]]
         IN  /\ task_queue' = Tail(task_queue)
             /\ pc' = [pc EXCEPT ![t] =
                    IF id \in pc[t].seen THEN f1
                    ELSE IF GnbClaimable(tasks, id)
                         THEN IF LockAcquirable(lock, t)
                              THEN [f2 EXCEPT !.batch = Append(@, id), !.at = "uts105",
                                              !.arg = "processing", !.nested = TRUE]
                              ELSE [f2 EXCEPT !.batch = Append(@, id), !.at = "gnb146"]
                    ELSE IF id \in DOMAIN tasks THEN [f2 EXCEPT !.at = "gnb149"]
                    ELSE f2]
    /\ UNCHANGED <<tasks, status_counts, lock, submitted, nops, last>>

\* line 149: self.task_queue.put((neg_priority, task_id))
GetNextBatchPutBack(t) ==
    /\ At(t, "gnb149")
    /\ task_queue' = GnbPutBack(task_queue, <<pc[t].arg, pc[t].id>>)
    /\ Goto(t, "gnb128")
    /\ UNCHANGED <<tasks, status_counts, lock, submitted, nops, last>>

\* retry_failed_task, line 165
RetryFailedTaskEnter(t, id) ==
    /\ EnterCall(t, "retry174", id, None)
    /\ UNCHANGED <<tasks, task_queue, status_counts, submitted, last>>

\* lines 166-174: the two checks that raise, and task.status = "pending"
RetryFailedTaskStatus(t) ==
    /\ At(t, "retry174")
    /\ IF RetryRaises(tasks, pc[t].id)
       THEN Goto(t, "return") /\ UNCHANGED tasks
       ELSE /\ tasks' = SetField(tasks, pc[t].id, "status", "pending")
            /\ Goto(t, "retry175")
    /\ UNCHANGED <<task_queue, status_counts, lock, submitted, nops, last>>

\* line 175: task.retry_count += 1
RetryFailedTaskCount(t) ==
    /\ At(t, "retry175")
    /\ tasks' = SetField(tasks, pc[t].id, "retry_count",
                         get_task_retry_count(pc[t].id) + 1)
    /\ Goto(t, "retry176")
    /\ UNCHANGED <<task_queue, status_counts, lock, submitted, nops, last>>

\* line 176: task.error = None
RetryFailedTaskError(t) ==
    /\ At(t, "retry176")
    /\ tasks' = SetField(tasks, pc[t].id, "error", None)
    /\ Goto(t, "retry180")
    /\ UNCHANGED <<task_queue, status_counts, lock, submitted, nops, last>>

\* line 180: self.status_counts["failed"] -= 1
RetryFailedTaskDecrement(t) ==
    /\ At(t, "retry180")
    /\ status_counts' = [status_counts EXCEPT !["failed"] = @ - 1]
    /\ Goto(t, "retry181")
    /\ UNCHANGED <<tasks, task_queue, lock, submitted, nops, last>>

\* line 181: self.status_counts["pending"] += 1
RetryFailedTaskIncrement(t) ==
    /\ At(t, "retry181")
    /\ status_counts' = [status_counts EXCEPT !["pending"] = @ + 1]
    /\ Goto(t, "retry185")
    /\ UNCHANGED <<tasks, task_queue, lock, submitted, nops, last>>

\* lines 184-185: self.task_queue.put((-priority, task_id))
RetryFailedTaskPut(t) ==
    /\ At(t, "retry185")
    /\ task_queue' = IF pc[t].id \in DOMAIN tasks
                     THEN put(task_queue, QueueEntry(tasks[pc[t].id].priority, pc[t].id))
                     ELSE task_queue
    /\ Goto(t, "return")
    /\ UNCHANGED <<tasks, status_counts, lock, submitted, nops, last>>

\* update_task_progress, line 199
UpdateTaskProgressEnter(t, id, progress) ==
    /\ EnterCall(t, "utp204", id, progress)
    /\ UNCHANGED <<tasks, task_queue, status_counts, submitted, last>>

\* lines 200-204: the lookup, which raises for an unknown id, and task.progress
UpdateTaskProgressAssign(t) ==
    /\ At(t, "utp204")
    /\ tasks' = SetField(tasks, pc[t].id, "progress", ClampProgress(pc[t].arg))
    /\ Goto(t, "return")
    /\ UNCHANGED <<task_queue, status_counts, lock, submitted, nops, last>>

\* update_task_error, line 231
UpdateTaskErrorEnter(t, id, error) ==
    /\ EnterCall(t, "ute236", id, error)
    /\ UNCHANGED <<tasks, task_queue, status_counts, submitted, last>>

\* lines 232-236: the lookup, which raises for an unknown id, and task.error = error
UpdateTaskErrorError(t) ==
    /\ At(t, "ute236")
    /\ IF pc[t].id \notin DOMAIN tasks
       THEN Goto(t, "return") /\ UNCHANGED tasks
       ELSE /\ tasks' = SetField(tasks, pc[t].id, "error", pc[t].arg)
            /\ Goto(t, "ute237")
    /\ UNCHANGED <<task_queue, status_counts, lock, submitted, nops, last>>

\* line 237: task.status = "failed"
UpdateTaskErrorStatus(t) ==
    /\ At(t, "ute237")
    /\ tasks' = SetField(tasks, pc[t].id, "status", "failed")
    /\ Goto(t, "ute241")
    /\ UNCHANGED <<task_queue, status_counts, lock, submitted, nops, last>>

\* line 241: self.status_counts["processing"] -= 1
UpdateTaskErrorDecrement(t) ==
    /\ At(t, "ute241")
    /\ status_counts' = [status_counts EXCEPT !["processing"] = @ - 1]
    /\ Goto(t, "ute242")
    /\ UNCHANGED <<tasks, task_queue, lock, submitted, nops, last>>

\* line 242: self.status_counts["failed"] += 1
UpdateTaskErrorIncrement(t) ==
    /\ At(t, "ute242")
    /\ status_counts' = [status_counts EXCEPT !["failed"] = @ + 1]
    /\ Goto(t, "return")
    /\ UNCHANGED <<tasks, task_queue, lock, submitted, nops, last>>

\* the ids of seq that satisfy keep, in the order of seq
RECURSIVE SelectIds(_, _)
SelectIds(seq, keep) ==
    IF seq = <<>> THEN <<>>
    ELSE (IF Head(seq) \in keep THEN <<Head(seq)>> ELSE <<>>) \o SelectIds(Tail(seq), keep)

\* cleanup_completed_tasks, lines 276-280: the lock and the list of the completed
\* ids, in the order of the dict (the order of insertion)
CleanupCompletedTasksEnter(t) ==
    /\ At(t, "idle")
    /\ LockAcquirable(lock, t)
    /\ nops < MaxCalls
    /\ nops' = nops + 1
    /\ lock' = t
    /\ pc' = [pc EXCEPT ![t] = [Idle EXCEPT !.at = "cl282", !.entry = tasks,
                                   !.todo = SelectIds(submitted, CompletedTasks(tasks))]]
    /\ UNCHANGED <<tasks, task_queue, status_counts, submitted, last>>

\* lines 281-282: the loop, and del self.tasks[task_id]
CleanupCompletedTasksDelete(t) ==
    /\ At(t, "cl282")
    /\ IF pc[t].todo = <<>>
       THEN Goto(t, "return") /\ UNCHANGED tasks
       ELSE /\ tasks' = [x \in DOMAIN tasks \ {Head(pc[t].todo)} |-> tasks[x]]
            /\ Goto(t, "cl283")
    /\ UNCHANGED <<task_queue, status_counts, lock, submitted, nops, last>>

\* line 283: self.status_counts["completed"] -= 1
CleanupCompletedTasksDecrement(t) ==
    /\ At(t, "cl283")
    /\ status_counts' = [status_counts EXCEPT !["completed"] = @ - 1]
    /\ pc' = [pc EXCEPT ![t].at = "cl282", ![t].todo = Tail(@)]
    /\ UNCHANGED <<tasks, task_queue, lock, submitted, nops, last>>

StepNext ==
    \E t \in Threads :
        \/ \E p \in Priorities : AddTaskEnter(t, p)
        \/ AddTaskStore(t) \/ AddTaskCount(t) \/ AddTaskPut(t)
        \/ \E id \in TaskIds, s \in StatusArgs : UpdateTaskStatusEnter(t, id, s)
        \/ UpdateTaskStatusDecrement(t) \/ UpdateTaskStatusIncrement(t)
        \/ UpdateTaskStatusAssign(t)
        \/ GetNextBatchEnter(t) \/ GetNextBatchPop(t) \/ GetNextBatchPutBack(t)
        \/ \E id \in TaskIds : RetryFailedTaskEnter(t, id)
        \/ RetryFailedTaskStatus(t) \/ RetryFailedTaskCount(t) \/ RetryFailedTaskError(t)
        \/ RetryFailedTaskDecrement(t) \/ RetryFailedTaskIncrement(t)
        \/ RetryFailedTaskPut(t)
        \/ \E id \in TaskIds, v \in ProgressArgs : UpdateTaskProgressEnter(t, id, v)
        \/ UpdateTaskProgressAssign(t)
        \/ \E id \in TaskIds, e \in ErrorArgs : UpdateTaskErrorEnter(t, id, e)
        \/ UpdateTaskErrorError(t) \/ UpdateTaskErrorStatus(t)
        \/ UpdateTaskErrorDecrement(t) \/ UpdateTaskErrorIncrement(t)
        \/ CleanupCompletedTasksEnter(t) \/ CleanupCompletedTasksDelete(t)
        \/ CleanupCompletedTasksDecrement(t)
        \/ Return(t)

StepSpec == StepInit /\ [][StepNext]_vars

\* ---- C21 ----
\* thread t is inside the `with self.lock` block of a mutating method
InCriticalSection(t) == pc[t].at # "idle"

\* C21: at most one thread at a time is inside the critical section of a mutating
\* method, and it is the thread that holds the lock; so every write to the records
\* and the counters between its entry and its return is its own.
C21_OneThreadInCriticalSection ==
    /\ \A t1, t2 \in Threads :
          (InCriticalSection(t1) /\ InCriticalSection(t2)) => t1 = t2
    /\ \A t \in Threads : InCriticalSection(t) => lock = t

\* after an earlier call has completed, a thread is between the two counter writes
\* of update_task_status, holding the lock, while every other thread is outside
C21_Witness ==
    /\ nops >= 2
    /\ \E t \in Threads :
          /\ At(t, "uts106")
          /\ lock = t
          /\ \A u \in Threads \ {t} : At(u, "idle")

\* ---- C22 ----
\* the number of records of each status in store tk
RecordCounts(tk) == [s \in Statuses |-> CountOf(tk, s)]

\* the stores between two complete operations that a read in this state may be
\* ordered at: the store as it is, the store as it was when the operation that is
\* under way began, and the store with the status that operation may still assign
BoundaryStores ==
    {tasks}
      \cup {pc[t].entry : t \in {u \in Threads : InCriticalSection(u)}}
      \cup {SetField(tasks, pc[t].id, "status", s) :
                t \in {u \in Threads : InCriticalSection(u)}, s \in Statuses}

\* C22: get_task_stats, which may run in any state, returns the per-status record
\* counts of a state between two complete operations, never a half-applied update.
C22_StatsAreCountsOfABoundaryState ==
    \E b \in BoundaryStores : get_task_stats = RecordCounts(b)
====
